---- MODULE Spec2Model ----
(***************************************************************************)
(* ggif: find or watch for a video file, convert it to a gif with external *)
(* tools, upload it with vendor CLIs and put the public URL on the         *)
(* clipboard.  Three program variants are modelled:                        *)
(*   "upload"  - unnamed/part_000: upload only, GCP and S3 stores, watch   *)
(*   "convert" - cmd/ggif/main.go 225-495: convert and upload, watch       *)
(*   "legacy"  - cmd/ggif/main.go 497-644: config.json, everything in main *)
(* Paths are sequences of components; a component is [stem, ext], the      *)
(* extension holding its leading dot.  The empty path is <<>>.             *)
(***************************************************************************)
EXTENDS Integers, Sequences, FiniteSets, TLC

\* ---------------------------------------------------------------- bounds
MaxFiles == 2      \* entries of the source directory listing
MaxTime == 2       \* modification times run over 0..MaxTime, the clock over 1..MaxTime
MaxEvents == 2     \* filesystem events the watcher delivers in one run

\* ------------------------------------------------- fsnotify.Op bit values
\* Create is the lowest bit; the other kinds are Write 2, Remove 4, Rename 8
\* and Chmod 16, and one event may carry several kinds at once
Create == 1

Ops == {Create, 2, 4, 8, 16, Create + 2}

\* event.Op&fsnotify.Create == fsnotify.Create
IsCreateOrWrite(op) == (op \div Create) % 2 = 1 \/ (op \div 2) % 2 = 1

IsCreate(op) == (op \div Create) % 2 = 1

\* ---------------------------------------------------------------- paths
Comp(stem, ext) == [stem |-> stem, ext |-> ext]

\* filepath.Join of two clean paths: empty elements are ignored
Join(a, b) == a \o b

\* filepath.Ext: the extension of the last element
Ext(p) == IF p = <<>> THEN "" ELSE p[Len(p)].ext

\* strings.TrimSuffix(filepath.Base(p), filepath.Ext(p))
BaseNoExt(p) == IF p = <<>> THEN "." ELSE p[Len(p)].stem

\* the text of one element, and of a path
CompStr(c) == c.stem \o c.ext

RECURSIVE PathStr(_)
PathStr(p) ==
    IF p = <<>> THEN ""
    ELSE IF Len(p) = 1 THEN CompStr(p[1])
    ELSE PathStr(SubSeq(p, 1, Len(p) - 1)) \o "/" \o CompStr(p[Len(p)])

\* ------------------------------------------------------- directory listing
\* ioutil.ReadDir returns the entries sorted by filename: entry i is named
\* FileName(i), and the names grow with i.
FileName(i) == Comp("clip" \o ToString(i), ".mov")

Entries == [video : BOOLEAN, statOk : BOOLEAN, mtime : 0..MaxTime]

Listings == UNION {[1..n -> Entries] : n \in 0..MaxFiles}

\* the listings of at most one entry
ShortListings == {l \in Listings : Len(l) <= 1}

\* One pass of the loop body of findNewestFile over entry i; acc is
\* [file, time] = (newestFile, newestTime), file being a path of 0 or 1 element
FindStepLastWins(fs, acc, i) ==
    IF ~fs[i].video THEN acc
    ELSE IF ~fs[i].statOk THEN acc
    ELSE IF fs[i].mtime >= acc.time
         THEN [file |-> <<FileName(i)>>, time |-> fs[i].mtime]
         ELSE acc

FindStep(fs, acc, i) ==
    IF ~fs[i].video THEN acc
    ELSE IF ~fs[i].statOk THEN acc
    ELSE IF fs[i].mtime > acc.time
         THEN [file |-> <<FileName(i)>>, time |-> fs[i].mtime]
         ELSE acc

RECURSIVE FindLoop(_, _)
FindLoop(fs, n) ==
    IF n = 0 THEN [file |-> <<>>, time |-> 0]
    ELSE FindStep(fs, FindLoop(fs, n - 1), n)

findNewestFile(dir, fs) == Join(dir, FindLoop(fs, Len(fs)).file)

\* findNewestFile of the config.json variant: no entry is sniffed
FindStepLegacy(fs, acc, i) ==
    IF ~fs[i].statOk THEN acc
    ELSE IF fs[i].mtime > acc.time
         THEN [file |-> <<FileName(i)>>, time |-> fs[i].mtime]
         ELSE acc

RECURSIVE FindLoopLegacy(_, _)
FindLoopLegacy(fs, n) ==
    IF n = 0 THEN [file |-> <<>>, time |-> 0]
    ELSE FindStepLegacy(fs, FindLoopLegacy(fs, n - 1), n)

findNewestFileLegacy(dir, fs) ==
    Join(dir, FindLoopLegacy(fs, Len(fs)).file)

\* ------------------------------------------------------------ configuration
SrcDirs == {<<>>, <<Comp("videos", "")>>}

DistDirs == {<<>>, <<Comp("out", "")>>}

ArgFile == <<Comp("videos", ""), Comp("arg", ".mp4")>>

Configs ==
    {c \in [variant : {"upload", "convert", "legacy"}, watch : BOOLEAN,
            src : SrcDirs, dist : DistDirs, gcp : {"", "gb"}, s3 : {"", "sb"},
            args : {<<>>, <<ArgFile>>}] :
        /\ c.variant = "legacy" => ~c.watch
        /\ c.variant # "upload" => c.s3 = ""
        /\ c.variant = "upload" => c.dist = <<>>
        /\ c.watch => c.args = <<>>}

\* ioutil.TempDir("/tmp", "pngs") makes a directory with a name not in use
TmpNames == {"pngs1", "pngs2"}

VARIABLES
    cfg,        \* the resolved configuration (cli.Context / Config)
    files,      \* the listing of cfg.src
    now,        \* time.Now().Unix()
    alive,      \* FALSE once log.Fatal has ended the process
    mainPc,     \* main goroutine: start, add, blocked, process, exit
    cpc,        \* watch's consumer goroutine: none, select, process
    ppc,        \* position inside the pipeline: none, enter, tmpdir, ffmpeg,
                \* gif, gcp, s3, ret
    videoFile,  \* process's argument
    tmpDir,     \* the scratch directory of the running invocation, or ""
    disk,       \* the scratch directories that exist under /tmp
    objKey,     \* outputFile (convert, legacy) or bucketFile (upload)
    outfn,      \* the path handed to the encoder and the copy commands
    cmdLog,     \* external commands run so far by the running invocation
    stdout,     \* lines printed so far by the running invocation
    clipboard,  \* the system clipboard
    queue,      \* events the watcher has still to deliver, oldest first
    history,    \* events the consumer has received, oldest first
    dispatched, \* positions in history of the events process was called for
    returned,   \* positions in history of the events whose process returned
    errPending, \* TRUE while the watcher waits to send on watcher.Errors
    errLogged   \* TRUE once the consumer has logged an error of the stream

vars == <<cfg, files, now, alive, mainPc, cpc, ppc, videoFile, tmpDir, disk,
          objKey, outfn, cmdLog, stdout, clipboard, queue,
          history, dispatched, returned, errPending, errLogged>>

pipeVars == <<videoFile, tmpDir, disk, objKey, outfn, cmdLog, stdout,
              clipboard>>

watchVars == <<queue, history, dispatched, returned, errPending, errLogged>>

\* events the watcher has accepted so far
nEvents == Len(history) + Len(queue)

InitWith(configs, listings) ==
    /\ cfg \in configs
    /\ files \in listings
    /\ (cfg.watch \/ cfg.args # <<>>) => files = <<>>
    /\ cfg.src = <<>> => files = <<>>    \* ioutil.ReadDir("") lists nothing
    /\ now = 1
    /\ alive = TRUE
    /\ mainPc = "start"
    /\ cpc = "none"
    /\ ppc = "none"
    /\ videoFile = <<>>
    /\ tmpDir = ""
    /\ disk = {}
    /\ objKey = ""
    /\ outfn = <<>>
    /\ cmdLog = <<>>
    /\ stdout = <<>>
    /\ clipboard = "old"
    /\ queue = <<>>
    /\ history = <<>>
    /\ dispatched = <<>>
    /\ returned = <<>>
    /\ errPending = FALSE
    /\ errLogged = FALSE

Init == InitWith(Configs, ShortListings)

\* ------------------------------------------------------------ the pipeline
\* runCmd runs the command, logs its output and its error, and returns: the
\* caller goes on to `next` whether the command succeeded or not
AfterCmdAbort(ok, next) == IF ok THEN next ELSE "ret"

AfterCmd(ok, next) == next

Cmd(name, args, ok) == [name |-> name, args |-> args, ok |-> ok]

\* fmt.Sprintf("%s_%d%s", videoFileName, time.Now().Unix(), ext)
bucketFile(vf, t) == BaseNoExt(vf) \o "_" \o ToString(t) \o Ext(vf)

\* fmt.Sprintf("%d.gif", newName), as a path element
outputFile(t) == Comp(ToString(t), ".gif")

\* process: distDir falls back to src when dist is empty
distDir(c) == IF c.dist = <<>> THEN c.src ELSE c.dist

outfnProcess(c, t) == Join(distDir(c), <<outputFile(t)>>)

\* main of the config.json variant: filepath.Join(config.Dist, outputFile)
outfnLegacy(c, t) == Join(c.dist, <<outputFile(t)>>)

gcpURLSwapped(bucket, key) ==
    "https://" \o bucket \o ".s3.amazonaws.com/" \o key

gcpURL(bucket, key) ==
    "https://storage.googleapis.com/" \o bucket \o "/" \o key

s3URL(bucket, key) ==
    "https://" \o bucket \o ".s3.amazonaws.com/" \o key

\* the arguments of the two copy commands
gcpArgs(c, file, key) ==
    <<"cp", PathStr(file), "gs://" \o c.gcp>>

s3Args(c, file, key) ==
    <<"s3", "cp", PathStr(file), "s3://" \o c.s3 \o "/" \o key,
      "--acl", "public-read">>

\* --------------------------------------------------------------- main
Running == alive /\ mainPc # "exit"

\* time.Now().Unix() reads a clock that never runs backwards
Clock == now..MaxTime

\* Action, watch disabled (and main of the config.json variant): the video
\* file is the first argument or the newest file of src, and process runs
StartSingle ==
    /\ Running
    /\ mainPc = "start"
    /\ ~cfg.watch
    /\ videoFile' = IF Len(cfg.args) >= 1 THEN cfg.args[1]
                    ELSE IF cfg.variant = "legacy"
                         THEN findNewestFileLegacy(cfg.src, files)
                         ELSE findNewestFile(cfg.src, files)
    /\ mainPc' = "process"
    /\ ppc' = "enter"
    /\ UNCHANGED <<cfg, files, now, alive, cpc, tmpDir, disk, objKey, outfn,
                   cmdLog, stdout, clipboard, watchVars>>

\* watch: fsnotify.NewWatcher, fatal on error; then the consumer goroutine
\* is started
StartWatch ==
    /\ Running
    /\ mainPc = "start"
    /\ cfg.watch
    /\ \E ok \in BOOLEAN :
          IF ok
          THEN /\ mainPc' = "add"
               /\ cpc' = "select"
               /\ alive' = alive
          ELSE /\ alive' = FALSE
               /\ UNCHANGED <<mainPc, cpc>>
    /\ UNCHANGED <<cfg, files, now, ppc, pipeVars, watchVars>>

\* watch: watcher.Add(src), fatal on error (an empty src cannot be watched);
\* then main blocks on done, which nothing sends on or closes
WatcherAdd ==
    /\ Running
    /\ mainPc = "add"
    /\ \E ok \in BOOLEAN :
          IF ok /\ cfg.src # <<>>
          THEN /\ mainPc' = "blocked"
               /\ alive' = alive
          ELSE /\ alive' = FALSE
               /\ mainPc' = mainPc
    /\ UNCHANGED <<cfg, files, now, cpc, ppc, pipeVars, watchVars>>

\* ------------------------------------------------------------ the watcher
NewFile == Comp("new", ".mov")

\* the filesystem reports a change of some entry of src
FsEvent ==
    /\ Running
    /\ mainPc = "blocked"
    /\ nEvents < MaxEvents
    /\ \E op \in Ops :
          queue' = Append(queue, [op |-> op, name |-> Join(cfg.src, <<NewFile>>)])
    /\ UNCHANGED <<cfg, files, now, alive, mainPc, cpc, ppc, pipeVars, history,
                   dispatched, returned, errPending, errLogged>>

\* the watcher reports an error on watcher.Errors, an unbuffered channel:
\* one error at a time waits for the consumer, any number in a run
WatcherError ==
    /\ Running
    /\ mainPc = "blocked"
    /\ ~errPending
    /\ errPending' = TRUE
    /\ errLogged' = errLogged
    /\ UNCHANGED <<cfg, files, now, alive, mainPc, cpc, ppc, pipeVars, queue,
                   history, dispatched, returned>>

\* the consumer is at its select, between two events
AtSelectOrBusy == cpc \in {"select", "process"}

AtSelect == cpc = "select"

\* select case event := <-watcher.Events: process is called, synchronously,
\* when the event carries Create
RecvEvent ==
    /\ Running
    /\ AtSelect
    /\ queue # <<>>
    /\ queue' = Tail(queue)
    /\ history' = Append(history, Head(queue))
    /\ IF IsCreate(Head(queue).op)
       THEN /\ dispatched' = Append(dispatched, Len(history) + 1)
            /\ videoFile' = Head(queue).name
            /\ cpc' = "process"
            /\ ppc' = "enter"
       ELSE UNCHANGED <<dispatched, videoFile, cpc, ppc>>
    /\ UNCHANGED <<cfg, files, now, alive, mainPc, tmpDir, disk, objKey, outfn,
                   cmdLog, stdout, clipboard, returned, errPending,
                   errLogged>>

\* where the consumer goes after an error of the stream: back to its select
AfterErrorReturn == "returned"

AfterError == "select"

\* select case err := <-watcher.Errors: the error is logged
RecvError ==
    /\ Running
    /\ AtSelect
    /\ errPending
    /\ errPending' = FALSE
    /\ errLogged' = TRUE
    /\ cpc' = AfterError
    /\ UNCHANGED <<cfg, files, now, alive, mainPc, ppc, pipeVars, queue,
                   history, dispatched, returned>>

\* ------------------------------------------------------------ process
\* process, entry: fatal when videoFile is empty.  The upload variant then
\* derives bucketFile; the others go on to make the scratch directory
ProcessEnter ==
    /\ Running
    /\ ppc = "enter"
    /\ IF videoFile = <<>>
       THEN /\ alive' = FALSE
            /\ UNCHANGED <<ppc, objKey, now>>
       ELSE /\ alive' = alive
            /\ IF cfg.variant = "upload"
               THEN /\ ppc' = "gcp"
                    /\ now' \in Clock
                    /\ objKey' = bucketFile(videoFile, now')
               ELSE /\ ppc' = "tmpdir"
                    /\ UNCHANGED <<objKey, now>>
    /\ UNCHANGED <<cfg, files, mainPc, cpc, videoFile, tmpDir, disk, outfn,
                   cmdLog, stdout, clipboard, watchVars>>

\* createTmpDir: ioutil.TempDir makes a directory that did not exist, fatal
\* on error; process defers its removal
createTmpDir ==
    /\ Running
    /\ ppc = "tmpdir"
    /\ \E ok \in BOOLEAN :
          IF ok
          THEN /\ \E t \in TmpNames \ disk :
                    /\ tmpDir' = t
                    /\ disk' = disk \cup {t}
               /\ ppc' = "ffmpeg"
               /\ alive' = alive
          ELSE /\ alive' = FALSE
               /\ UNCHANGED <<ppc, tmpDir, disk>>
    /\ UNCHANGED <<cfg, files, now, mainPc, cpc, videoFile, objKey, outfn,
                   cmdLog, stdout, clipboard, watchVars>>

\* runCmd("ffmpeg", "-i", videoFile, tmpfn), then the output name and path
\* from the clock
RunFfmpeg ==
    /\ Running
    /\ ppc = "ffmpeg"
    /\ \E ok \in BOOLEAN :
          /\ cmdLog' = Append(cmdLog,
                 Cmd("ffmpeg",
                     <<"-i", PathStr(videoFile), tmpDir \o "/frame%04d.png">>,
                     ok))
          /\ ppc' = AfterCmd(ok, "gif")
    /\ now' \in Clock
    /\ objKey' = CompStr(outputFile(now'))
    /\ outfn' = IF cfg.variant = "legacy" THEN outfnLegacy(cfg, now')
                ELSE outfnProcess(cfg, now')
    /\ UNCHANGED <<cfg, files, alive, mainPc, cpc, videoFile, tmpDir,
                   disk, stdout, clipboard, watchVars>>

\* createGif: runCmd("/bin/sh", "-c", "gifski ... -o outfn tmpDir/*.png").
\* A gif written into the watched directory is a new entry of it, which the
\* filesystem reports to the watcher
createGif ==
    /\ Running
    /\ ppc = "gif"
    /\ \E ok \in BOOLEAN :
          /\ cmdLog' = Append(cmdLog,
                 Cmd("/bin/sh",
                     <<"-c", "gifski", "-o", PathStr(outfn), tmpDir \o "/*.png">>,
                     ok))
          /\ ppc' = AfterCmd(ok, "gcp")
          /\ IF /\ ok
                /\ cfg.watch
                /\ SubSeq(outfn, 1, Len(outfn) - 1) = cfg.src
                /\ nEvents < MaxEvents
             THEN queue' = Append(queue, [op |-> Create, name |-> outfn])
             ELSE queue' = queue
    /\ UNCHANGED <<cfg, files, now, alive, mainPc, cpc, videoFile, tmpDir,
                   disk, objKey, outfn, stdout, clipboard, history,
                   dispatched, returned, errPending, errLogged>>

\* if bucket == "" { return }
NoBucketNever(bucket) == FALSE

NoBucket(bucket) == bucket = ""

\* the file the copy commands upload
upFile == IF cfg.variant = "upload" THEN videoFile ELSE outfn

\* uploadGCP (and the inline upload of the config.json variant): nothing when
\* the bucket is empty; else gsutil cp, the URL printed and put on the
\* clipboard
uploadGCP ==
    /\ Running
    /\ ppc = "gcp"
    /\ LET next == IF cfg.variant = "upload" THEN "s3" ELSE "ret"
       IN  IF NoBucket(cfg.gcp)
           THEN /\ ppc' = next
                /\ UNCHANGED <<cmdLog, stdout, clipboard>>
           ELSE /\ \E ok \in BOOLEAN :
                     /\ cmdLog' = Append(cmdLog,
                            Cmd("gsutil", gcpArgs(cfg, upFile, objKey), ok))
                     /\ ppc' = AfterCmd(ok, next)
                /\ stdout' = Append(stdout, gcpURL(cfg.gcp, objKey))
                /\ clipboard' = gcpURL(cfg.gcp, objKey)
    /\ UNCHANGED <<cfg, files, now, alive, mainPc, cpc, videoFile, tmpDir,
                   disk, objKey, outfn, watchVars>>

\* uploadS3: nothing when the bucket is empty; else aws s3 cp, the URL
\* printed and put on the clipboard
uploadS3 ==
    /\ Running
    /\ ppc = "s3"
    /\ IF NoBucket(cfg.s3)
       THEN /\ ppc' = "ret"
            /\ UNCHANGED <<cmdLog, stdout, clipboard>>
       ELSE /\ \E ok \in BOOLEAN :
                 /\ cmdLog' = Append(cmdLog,
                        Cmd("aws", s3Args(cfg, upFile, objKey), ok))
                 /\ ppc' = AfterCmd(ok, "ret")
            /\ stdout' = Append(stdout, s3URL(cfg.s3, objKey))
            /\ clipboard' = s3URL(cfg.s3, objKey)
    /\ UNCHANGED <<cfg, files, now, alive, mainPc, cpc, videoFile, tmpDir,
                   disk, objKey, outfn, watchVars>>

\* defer os.RemoveAll(tmpDir)
RemoveAllOnSuccess(d, t) ==
    IF \A i \in 1..Len(cmdLog) : cmdLog[i].ok THEN d \ {t} ELSE d

RemoveAll(d, t) == d \ {t}

\* process returns: the deferred removal runs and the locals are gone; the
\* consumer goes back to its select, or main returns from Action and the
\* program ends
ProcessReturn ==
    /\ Running
    /\ ppc = "ret"
    /\ ppc' = "none"
    /\ disk' = IF cfg.variant = "upload" THEN disk ELSE RemoveAll(disk, tmpDir)
    /\ IF cfg.watch
       THEN /\ cpc' = "select"
            /\ returned' = Append(returned, dispatched[Len(dispatched)])
            /\ mainPc' = mainPc
       ELSE /\ mainPc' = "exit"
            /\ UNCHANGED <<cpc, returned>>
    /\ videoFile' = <<>>
    /\ tmpDir' = ""
    /\ objKey' = ""
    /\ outfn' = <<>>
    /\ cmdLog' = <<>>
    /\ stdout' = <<>>
    /\ UNCHANGED <<cfg, files, now, alive, clipboard, queue,
                   history, dispatched, errPending, errLogged>>

\* ------------------------------------------------------------ specification
Next ==
    \/ StartSingle
    \/ StartWatch
    \/ WatcherAdd
    \/ FsEvent
    \/ WatcherError
    \/ RecvEvent
    \/ RecvError
    \/ ProcessEnter
    \/ createTmpDir
    \/ RunFfmpeg
    \/ createGif
    \/ uploadGCP
    \/ uploadS3
    \/ ProcessReturn

Spec == Init /\ [][Next]_vars

\* The consumer goroutine is scheduled, Go's select takes a ready case, and
\* the external commands end
FairSpec ==
    /\ Spec
    /\ WF_vars(RecvEvent)
    /\ WF_vars(RecvError)
    /\ WF_vars(ProcessEnter \/ createTmpDir \/ RunFfmpeg \/ createGif
                 \/ uploadGCP \/ uploadS3 \/ ProcessReturn)

\* findNewestFile on its own: every listing, single-shot runs with no argument
FindConfigs ==
    {c \in Configs : /\ ~c.watch
                     /\ c.args = <<>>
                     /\ c.variant = "convert"
                     /\ c.dist = <<>>
                     /\ c.gcp = ""}

InitFind == InitWith(FindConfigs, Listings)

NextFind == StartSingle

SpecFind == InitFind /\ [][NextFind]_vars

TypeOK ==
    /\ cfg \in Configs
    /\ ppc \in {"none", "enter", "tmpdir", "ffmpeg", "gif", "gcp", "s3", "ret"}
    /\ cpc \in {"none", "select", "process"}
    /\ mainPc \in {"start", "add", "blocked", "process", "exit"}

\* ------------------------------------------------------------------ C1
\* the file findNewestFile has returned is in videoFile once a single-shot
\* run with no argument has started process
Found == mainPc = "process" /\ ppc = "enter" /\ cfg.args = <<>>

VideoEntries == {i \in 1..Len(files) : files[i].video}

\* the entries findNewestFile can select: sniffed as video, stat succeeded,
\* modified after the epoch
Eligible ==
    {i \in VideoEntries : files[i].statOk /\ files[i].mtime > 0}

NewestOf(S) == {i \in S : \A j \in S : files[j].mtime <= files[i].mtime}

FirstOf(S) == CHOOSE i \in S : \A j \in S : i <= j

LastOf(S) == CHOOSE i \in S : \A j \in S : j <= i

\* C1 as stated: with at least one video entry, findNewestFile returns
\* dir/name of the video entry with the greatest modification time, the
\* last one in listing order when several share it.  Stated here for the
\* listings the claim is least in doubt about: every video entry stats and
\* was modified after the epoch
C1_LastSeenWins ==
    (Found /\ cfg.variant # "legacy" /\ VideoEntries # {}
           /\ VideoEntries = Eligible) =>
        videoFile = Join(cfg.src, <<FileName(LastOf(NewestOf(VideoEntries)))>>)

\* C1 amended: findNewestFile returns dir/name of the eligible entry with
\* the greatest modification time, the first one in listing order when
\* several share it, and dir itself when no entry is eligible
C1_FirstSeenWins ==
    (Found /\ cfg.variant # "legacy") =>
        videoFile = IF Eligible = {} THEN cfg.src
                    ELSE Join(cfg.src, <<FileName(FirstOf(NewestOf(Eligible)))>>)

\* two eligible entries share the greatest modification time and the first
\* was returned
C1_Witness ==
    /\ Found
    /\ cfg.variant # "legacy"
    /\ Cardinality(NewestOf(Eligible)) >= 2
    /\ videoFile = Join(cfg.src, <<FileName(FirstOf(NewestOf(Eligible)))>>)
    /\ videoFile # Join(cfg.src, <<FileName(LastOf(NewestOf(Eligible)))>>)

\* ------------------------------------------------------------------ C2
\* C2 as stated: in a single-shot run with no argument on a directory with
\* no video entry, findNewestFile returns the empty path and process ends
\* the program at its entry: no scratch directory, no command, no upload
C2_NoVideoIsFatal ==
    (/\ ~cfg.watch
     /\ cfg.args = <<>>
     /\ cfg.variant # "legacy"
     /\ VideoEntries = {}
     /\ mainPc # "start") =>
        /\ videoFile = <<>>
        /\ mainPc = "process"
        /\ ppc = "enter"
        /\ disk = {}
        /\ cmdLog = <<>>
        /\ stdout = <<>>
        /\ clipboard = "old"

\* ------------------------------------------------------------------ C3
\* C3: in watch mode process has been called for exactly the received
\* events that carry Create (the lowest bit of Op), whatever else they carry
Positions(seq) == {seq[i] : i \in 1..Len(seq)}

C3_OnlyCreateDispatches ==
    \A i \in 1..Len(history) :
        (i \in Positions(dispatched)) <=> (history[i].op % 2 = 1)

\* a Write event and a Create+Write event were received; only the second
\* was dispatched
C3_Witness ==
    /\ Len(history) = 2
    /\ history[1].op = 2
    /\ history[2].op = Create + 2
    /\ dispatched = <<2>>

\* ------------------------------------------------------------------ C4
\* C4: invocations start in delivery order, at most one has not returned,
\* and while one has not returned the consumer has taken no later event
C4_OneAtATimeInOrder ==
    cfg.watch =>
    /\ \A i \in 1..Len(dispatched) : \A j \in 1..Len(dispatched) :
           i < j => dispatched[i] < dispatched[j]
    /\ Len(returned) <= Len(dispatched)
    /\ returned = SubSeq(dispatched, 1, Len(returned))
    /\ Len(dispatched) - Len(returned) <= 1
    /\ Len(dispatched) > Len(returned) =>
           /\ dispatched[Len(dispatched)] = Len(history)
           /\ cpc = "process"
    /\ Len(dispatched) = Len(returned) => ppc = "none"

\* a second creation event waits in the queue while the invocation for the
\* first, having run a command, has not returned
C4_Witness ==
    /\ cpc = "process"
    /\ cmdLog # <<>>
    /\ dispatched = <<1>>
    /\ returned = <<>>
    /\ queue # <<>>
    /\ Head(queue).op = Create

\* ------------------------------------------------------------------ C5
\* C5: in the converting variants a scratch directory exists exactly while
\* an invocation holds it: none before createTmpDir (so the one made is
\* new), only the invocation's own until it returns, none after the return,
\* whichever commands failed
C5_ScratchScoped ==
    cfg.variant # "upload" =>
        IF ppc \in {"ffmpeg", "gif", "gcp", "ret"}
        THEN tmpDir # "" /\ disk = {tmpDir}
        ELSE disk = {}

\* two invocations of the converting pipeline have returned and no scratch
\* directory is left
C5_Witness ==
    /\ cfg.variant = "convert"
    /\ Len(returned) = 2
    /\ ppc = "none"
    /\ disk = {}

\* ------------------------------------------------------------------ C6
CopyCmds == {i \in 1..Len(cmdLog) : cmdLog[i].name \in {"gsutil", "aws"}}

\* C6: with every bucket empty no copy command is run, no URL is printed and
\* the clipboard keeps the contents it had when the program started
C6_NoBucketNoEffect ==
    (cfg.gcp = "" /\ cfg.s3 = "") =>
        /\ CopyCmds = {}
        /\ stdout = <<>>
        /\ clipboard = "old"

\* the upload variant, no bucket configured, is past uploadGCP and uploadS3
C6_Witness ==
    /\ cfg.variant = "upload"
    /\ cfg.gcp = ""
    /\ cfg.s3 = ""
    /\ ppc = "ret"
    /\ Len(returned) = 1

\* ------------------------------------------------------------------ C7
\* C7: when the last command run is a store's copy and it succeeded, the
\* clipboard holds that store's URL of the bucket and the object key
C7_ClipboardIsStoreURL ==
    cmdLog # <<>> =>
        LET last == cmdLog[Len(cmdLog)]
        IN  /\ (last.name = "gsutil" /\ last.ok) =>
                   /\ cfg.gcp # ""
                   /\ clipboard =
                        "https://storage.googleapis.com/" \o cfg.gcp \o "/" \o objKey
            /\ (last.name = "aws" /\ last.ok) =>
                   /\ cfg.s3 # ""
                   /\ clipboard =
                        "https://" \o cfg.s3 \o ".s3.amazonaws.com/" \o objKey

\* both stores configured: both copies succeeded and the clipboard holds the
\* S3 URL, written over the GCP one
C7_Witness ==
    /\ Len(cmdLog) = 2
    /\ cmdLog[1].name = "gsutil"
    /\ cmdLog[1].ok
    /\ cmdLog[2].name = "aws"
    /\ cmdLog[2].ok
    /\ stdout[1] = "https://storage.googleapis.com/gb/new_1.mov"
    /\ clipboard = "https://sb.s3.amazonaws.com/new_1.mov"

\* ------------------------------------------------------------------ C8
\* C8 as stated: the output path is dist/<timestamp>.gif when dist is set and
\* src/<timestamp>.gif when it is not
C8_OutputUnderDistOrSrc ==
    (cfg.variant # "upload" /\ ppc \in {"gif", "gcp", "ret"}) =>
        outfn = (IF cfg.dist # <<>> THEN cfg.dist ELSE cfg.src)
                    \o <<[stem |-> ToString(now), ext |-> ".gif"]>>

\* ------------------------------------------------------------------ C9
CmdNames == [i \in 1..Len(cmdLog) |-> cmdLog[i].name]

\* the commands and the URLs of one whole invocation under cfg
AllCmds ==
    (IF cfg.variant = "upload" THEN <<>> ELSE <<"ffmpeg", "/bin/sh">>)
    \o (IF cfg.gcp = "" THEN <<>> ELSE <<"gsutil">>)
    \o (IF cfg.s3 = "" THEN <<>> ELSE <<"aws">>)

AllURLs ==
    (IF cfg.gcp = "" THEN <<>>
     ELSE <<"https://storage.googleapis.com/" \o cfg.gcp \o "/" \o objKey>>)
    \o (IF cfg.s3 = "" THEN <<>>
        ELSE <<"https://" \o cfg.s3 \o ".s3.amazonaws.com/" \o objKey>>)

\* C9: when an invocation is about to return, every step has been attempted
\* whatever failed: every command was run, every configured store's URL was
\* printed, and the last one is on the clipboard
C9_FailuresAbortNothing ==
    ppc = "ret" =>
        /\ CmdNames = AllCmds
        /\ stdout = AllURLs
        /\ AllURLs # <<>> => clipboard = AllURLs[Len(AllURLs)]

\* frame extraction, encoding and the copy all failed, and the URL is
\* printed and on the clipboard all the same
C9_Witness ==
    /\ ppc = "ret"
    /\ Len(cmdLog) = 3
    /\ \A i \in 1..3 : ~cmdLog[i].ok
    /\ cmdLog[2].name = "/bin/sh"
    /\ cmdLog[3].name = "gsutil"
    /\ Len(stdout) = 1
    /\ clipboard = stdout[1]

\* ------------------------------------------------------------------ C10
\* the events the watcher has accepted that carry Create, by position
Creations ==
    {k \in 1..nEvents : (history \o queue)[k].op % 2 = 1}

\* the consumer goroutine is in its for-select loop
InLoop == cpc \in {"select", "process"}

\* C10: while the process lives, whenever a creation event the watcher has
\* accepted is not yet dispatched, in the end every one of them is, whatever
\* errors the stream delivers in between; the consumer never leaves its loop
\* and watch, once blocked on done, stays blocked
C10_ErrorsDoNotStopTheLoop ==
    /\ (Creations # Positions(dispatched))
           ~> (Creations = Positions(dispatched) \/ ~alive)
    /\ [][mainPc = "blocked" => mainPc' = "blocked"]_vars
    /\ [][InLoop => InLoop']_vars

\* the consumer logged a stream error and then took the first event, a
\* creation event, whose invocation is running
C10_Witness ==
    /\ errLogged
    /\ cpc = "process"
    /\ dispatched = <<1>>
    /\ returned = <<>>
    /\ mainPc = "blocked"

\* ------------------------------------------------------------------- C11
\* an event for the file something other than the pipeline created in src;
\* every other event of a run names a gif that createGif wrote
External(e) == e.name = Join(cfg.src, <<NewFile>>)

ExternalEvents == {k \in 1..nEvents : External((history \o queue)[k])}

\* C11 as stated: in watch mode of the converting variant, whatever dist is,
\* every call of process is for a file that something other than the pipeline
\* created in the watched directory, so there are never more calls than
\* events for such files: no event for a gif written by an earlier call is
\* dispatched
C11_NoSelfDispatch ==
    (cfg.watch /\ cfg.variant = "convert") =>
        /\ \A i \in Positions(dispatched) : External(history[i])
        /\ Len(dispatched) <= Cardinality(ExternalEvents)

====
